---- MODULE Spec2Model ----
(***************************************************************************)
(* Model of ResumeOrganizer (src/organize_resumes.py): classification of   *)
(* resume files by keyword scoring, manual mappings, folder creation,      *)
(* collision-free destination planning and the dry-run / execute runs.     *)
(*                                                                         *)
(* A file name is a record [dot, stem, tags, suffix]: the string           *)
(*   (dot ? "." : "") + stem + " (t1)" + " (t2)" ... + suffix.             *)
(* Path.stem is everything but the suffix, so the duplicate name           *)
(* f"{stem} ({counter}){suffix}" appends one tag.                          *)
(* A text is a sequence of tokens (strings), read as the tokens joined by  *)
(* single blanks; the token " " stands for a piece of white space.         *)
(***************************************************************************)
EXTENDS Integers, Sequences, FiniteSets, TLC

(* ---------------------------- bounds ----------------------------------- *)
MaxFiles == 2        \* eligible files initially in the root (organizer runs)
MaxWords == 3        \* tokens of an extracted text in the classification runs
MaxFaults == 1       \* mkdir / shutil.move failures in one behaviour

(* ---------------------------- state ------------------------------------ *)
VARIABLES
  fs,               \* the filesystem under root_dir
  dirOrder,         \* the order in which iterdir() lists the root's files
  text,             \* what extract_text_from_file returns for each root file
  manual_mappings,  \* self.manual_mappings: file name -> folder name
  dry_run,          \* self.dry_run of the current run
  root_files,       \* the list built at the start of organize_resumes
  idx,              \* position of the for loop in root_files
  pc,               \* "idle", "loop" (inside the for loop), "done"
  matched_files, moved_files, unmatched_files, created_folders,
  log,              \* one record per processed file of the current run
  snapshot,         \* the filesystem when the current run started
  prev,             \* <<summary of the previous run>>, or <<>>
  rerun,            \* TRUE when the current run is the last of the behaviour
  faults            \* mkdir / move failures so far

vars == <<fs, dirOrder, text, manual_mappings, dry_run, root_files, idx, pc,
          matched_files, moved_files, unmatched_files, created_folders,
          log, snapshot, prev, rerun, faults>>

(* ---------------------------- names ------------------------------------ *)
Nm(d, s, t, x) == [dot |-> d, stem |-> s, tags |-> t, suffix |-> x]

CV == Nm(FALSE, "cv", <<>>, ".txt")
CV1 == Nm(FALSE, "cv", <<1>>, ".txt")
PythonTXT == Nm(FALSE, "Python", <<>>, ".TXT")
Notes == Nm(FALSE, "notes", <<>>, ".xyz")
HiddenCV == Nm(TRUE, "cv", <<>>, ".txt")
Requirements == Nm(FALSE, "requirements", <<>>, ".txt")

\* str.lower() on the strings of the model
Lower(s) ==
  CASE s = "Python" -> "python"
    [] s = ".TXT" -> ".txt"
    [] OTHER -> s

resume_extensions == {".pdf", ".docx", ".doc", ".txt"}

excluded_files ==
  { Nm(FALSE, "organize_resumes", <<>>, ".py"),
    Requirements,
    Nm(FALSE, "desktop", <<>>, ".ini") }

(* ---------------------------- taxonomy --------------------------------- *)
\* The first roles of _build_role_keywords, in definition order, each with
\* its first keywords and the keywords the tokens of the model can hit.
RoleOrder == <<"Python", "JavaScript", "React">>

Roles == {RoleOrder[i] : i \in 1..Len(RoleOrder)}

role_keywords ==
  [r \in Roles |->
     CASE r = "Python" -> <<"python", "django", "flask">>
       [] r = "JavaScript" -> <<"javascript", "js", "react">>
       [] r = "React" -> <<"react", "redux", "jsx">>]

ManualRoles == {"Python", "DevOPS"}

FolderNames == Roles \cup ManualRoles

(* ---------------------------- texts ------------------------------------ *)
Blank == " "

Filler == "curriculum vitae of a senior engineer, buenos aires 2024"

Vocab == {"Python", "react", "redux", "js", Filler, Blank}

\* the texts of the files of the organizer runs: nothing extracted, and a
\* short text with one keyword
OrgTexts == {<<>>, <<"Python">>}

TextsOver(V, n) == UNION {[1..k -> V] : k \in 0..n}

IsSpace(tok) == tok = Blank

RECURSIVE JoinedLen(_, _, _)
\* len of text[i] + " " + ... + " " + text[j]
JoinedLen(txt, i, j) ==
  IF i > j THEN 0
  ELSE IF i = j THEN Len(txt[i])
  ELSE Len(txt[i]) + 1 + JoinedLen(txt, i + 1, j)

\* len(text.strip())
StrippedLen(txt) ==
  LET solid == {i \in 1..Len(txt) : ~IsSpace(txt[i])}
  IN IF solid = {} THEN 0
     ELSE LET lo == CHOOSE i \in solid : \A j \in solid : i <= j
              hi == CHOOSE i \in solid : \A j \in solid : j <= i
          IN JoinedLen(txt, lo, hi)

MinContentLen == 50

\* the words of file_path.stem.lower() and of file_path.name.lower()
StemWords(name) ==
  <<Lower(name.stem)>> \o [i \in 1..Len(name.tags) |-> ToString(name.tags[i])]

SuffixWord(name) == Lower(name.suffix)

FilenameText(name) == StemWords(name) \o StemWords(name) \o <<SuffixWord(name)>>

(* ---------------------------- scoring ---------------------------------- *)
\* len(re.findall(r'\b' + keyword + r'\b', text_lower)): the tokens that,
\* lower-cased, are the keyword
Matches(keyword, txt) ==
  Cardinality({i \in 1..Len(txt) : Lower(txt[i]) = keyword})

RECURSIVE KeywordSum(_, _, _)
KeywordSum(keywords, k, txt) ==
  IF k > Len(keywords) THEN 0
  ELSE Matches(keywords[k], txt) + KeywordSum(keywords, k + 1, txt)

analyze_resume_content(txt) ==
  [r \in Roles |-> KeywordSum(role_keywords[r], 1, txt)]

RECURSIVE MaxFrom(_, _, _)
\* max(scores.items(), key=...) keeps the first item of the greatest key; the
\* items come in the order the roles were inserted, the taxonomy's order
MaxFrom(scores, i, best) ==
  IF i > Len(RoleOrder) THEN best
  ELSE MaxFrom(scores, i + 1,
               IF scores[RoleOrder[i]] > scores[best] THEN RoleOrder[i] ELSE best)

\* max() that keeps the last item of the greatest key
BestRole_LastMax(scores) ==
  LET i == CHOOSE k \in 1..Len(RoleOrder) :
             /\ \A r \in Roles : scores[r] <= scores[RoleOrder[k]]
             /\ \A j \in (k + 1)..Len(RoleOrder) :
                  scores[RoleOrder[j]] < scores[RoleOrder[k]]
  IN RoleOrder[i]

BestRole(scores) == MaxFrom(scores, 2, RoleOrder[1])

(* ---------------------------- classification --------------------------- *)
None == [kind |-> "none"]

Match(role, score) == [kind |-> "match", role |-> role, score |-> score]

NeedsFilename(txt) == txt = <<>> \/ StrippedLen(txt) < MinContentLen

\* the text that is scored: the extracted text, with the file name's text
\* appended to (or standing in for) a missing or short one
ScoredText(name, txt) ==
  LET filename_text == IF NeedsFilename(txt) THEN FilenameText(name) ELSE <<>>
  IN IF NeedsFilename(txt)
     THEN IF txt # <<>> THEN txt \o filename_text ELSE filename_text
     ELSE txt

\* find_target_folder_from_content with min_score = 2 for every file
find_target_folder_from_content_Min2(name, txt) ==
  LET scores == analyze_resume_content(ScoredText(name, txt))
      role_name == BestRole(scores)
      score == scores[role_name]
  IN IF DOMAIN scores = {} THEN None
     ELSE IF score < 2 THEN None
     ELSE Match(role_name, score)

find_target_folder_from_content(name, txt) ==
  LET filename_text == IF NeedsFilename(txt) THEN FilenameText(name) ELSE <<>>
      scores == analyze_resume_content(ScoredText(name, txt))
      role_name == BestRole(scores)
      score == scores[role_name]
      min_score == IF filename_text # <<>> THEN 1 ELSE 2
  IN IF DOMAIN scores = {} THEN None
     ELSE IF score < min_score THEN None
     ELSE Match(role_name, score)

ManualScore == 999

(* ---------------------------- filesystem ------------------------------- *)
\* The filesystem under the root: the regular files of the root, the role
\* folders that exist and the names of the files inside each of them.
FS(r, d, c) == [root |-> r, dirs |-> d, inDir |-> c]

FolderExists(f, folder) == folder \in f.dirs

PathExists(f, folder, name) == folder \in f.dirs /\ name \in f.inDir[folder]

\* the names for which (root_dir / folder / name).exists()
Present(f, folder) == IF folder \in f.dirs THEN f.inDir[folder] ELSE {}

\* Path.mkdir(parents=True, exist_ok=True), when it succeeds
Mkdir(f, folder) == [f EXCEPT !.dirs = @ \cup {folder}]

should_move_file(f, name) ==
  /\ name \in f.root
  /\ Lower(name.suffix) \in resume_extensions
  /\ ~name.dot
  /\ name \notin excluded_files

DupName(name, counter) == [name EXCEPT !.tags = Append(@, counter)]

RECURSIVE NextFree(_, _, _, _, _)
\* the while loop of organize_resumes: counter is the next number to try
NextFree(f, folder, name, destination, counter) ==
  IF PathExists(f, folder, destination)
  THEN NextFree(f, folder, name, DupName(name, counter), counter + 1)
  ELSE destination

\* the destination without the duplicate-name loop
PlanDestination_NoLoop(f, folder, name) == name

\* the destination planned on the filesystem of the start of the run
PlanDestination_AtStart(f, folder, name) ==
  NextFree(snapshot, folder, name, name, 1)

PlanDestination(f, folder, name) == NextFree(f, folder, name, name, 1)

\* shutil.move(src, dst) of a root file: "ok" renames; "fail" raises with
\* nothing done; "copied" raises after the copy to dst was written and the
\* source could not be removed. Without the parent folder it can only fail.
MoveOutcomes == {"ok", "fail", "copied"}

\* a move that removes the source before it writes the destination
ShutilMove_UnlinkFirst(f, name, folder, destination, outcome) ==
  IF ~FolderExists(f, folder) THEN f
  ELSE IF outcome = "ok"
       THEN [f EXCEPT !.root = @ \ {name},
                      !.inDir[folder] = @ \cup {destination}]
       ELSE [f EXCEPT !.root = @ \ {name}]

\* a move that copies: the source stays in the root
ShutilMove_Copy(f, name, folder, destination, outcome) ==
  IF ~FolderExists(f, folder) \/ outcome = "fail" THEN f
  ELSE [f EXCEPT !.inDir[folder] = @ \cup {destination}]

ShutilMove(f, name, folder, destination, outcome) ==
  IF ~FolderExists(f, folder) \/ outcome = "fail" THEN f
  ELSE IF outcome = "copied"
       THEN [f EXCEPT !.inDir[folder] = @ \cup {destination}]
       ELSE [f EXCEPT !.root = @ \ {name},
                       !.inDir[folder] = @ \cup {destination}]

MoveSucceeds(f, folder, outcome) == FolderExists(f, folder) /\ outcome = "ok"

(* ---------------------------- the organizer ------------------------- *)
Stat(name, role, score) == [name |-> name, role |-> role, score |-> score]

\* create_folder_if_needed without the dry_run branch
create_folder_if_needed_NoDryRun(f, c, dry, folder, ok) ==
  IF ~FolderExists(f, folder)
  THEN IF ok
       THEN [fs |-> Mkdir(f, folder), created |-> Append(c, folder),
             ret |-> TRUE, error |-> FALSE]
       ELSE [fs |-> f, created |-> c, ret |-> FALSE, error |-> TRUE]
  ELSE [fs |-> f, created |-> c, ret |-> FALSE, error |-> FALSE]

\* create_folder_if_needed on the filesystem f and the list c of created
\* folders; ok tells whether mkdir succeeds when it is called
create_folder_if_needed(f, c, dry, folder, ok) ==
  IF ~FolderExists(f, folder)
  THEN IF ~dry
       THEN IF ok
            THEN [fs |-> Mkdir(f, folder), created |-> Append(c, folder),
                  ret |-> TRUE, error |-> FALSE]
            ELSE [fs |-> f, created |-> c, ret |-> FALSE, error |-> TRUE]
       ELSE [fs |-> f, created |-> Append(c, folder),
             ret |-> TRUE, error |-> FALSE]
  ELSE [fs |-> f, created |-> c, ret |-> FALSE, error |-> FALSE]

\* find_target_folder that asks the content first and the mapping second
find_target_folder_ContentFirst(f, c, dry, name, ok) ==
  LET byContent == find_target_folder_from_content(name, text[name])
  IN IF byContent.kind = "none" /\ name \in DOMAIN manual_mappings
     THEN LET target_folder_name == manual_mappings[name]
              made == create_folder_if_needed(f, c, dry, target_folder_name, ok)
          IN [result |-> Match(target_folder_name, ManualScore),
              fs |-> made.fs, created |-> made.created,
              error |-> made.error, extracted |-> TRUE]
     ELSE [result |-> byContent,
           fs |-> f, created |-> c, error |-> FALSE, extracted |-> TRUE]

\* find_target_folder: the result, the filesystem and created_folders after
\* it, and whether it called extract_text_from_file
find_target_folder(f, c, dry, name, ok) ==
  IF name \in DOMAIN manual_mappings
  THEN LET target_folder_name == manual_mappings[name]
           made == create_folder_if_needed(f, c, dry, target_folder_name, ok)
       IN [result |-> Match(target_folder_name, ManualScore),
           fs |-> made.fs, created |-> made.created,
           error |-> made.error, extracted |-> FALSE]
  ELSE [result |-> find_target_folder_from_content(name, text[name]),
        fs |-> f, created |-> c, error |-> FALSE, extracted |-> TRUE]

\* moved_files appended outside the try block
MovedAfter_Always(moved, entry, succeeded) == Append(moved, entry)

\* lines 453-458: moved_files after the try block
MovedAfter(moved, entry, succeeded) ==
  IF succeeded THEN Append(moved, entry) ELSE moved

RECURSIVE Filter(_, _)
\* [f for f in self.root_dir.iterdir() if self.should_move_file(f)]
Filter(seq, f) ==
  IF seq = <<>> THEN <<>>
  ELSE (IF should_move_file(f, Head(seq)) THEN <<Head(seq)>> ELSE <<>>)
       \o Filter(Tail(seq), f)

RunFailed == \E i \in 1..Len(log) : log[i].folderError \/ log[i].moveError

Summary ==
  [dry_run |-> dry_run, matched |-> matched_files, moved |-> moved_files,
   unmatched |-> unmatched_files, created |-> created_folders,
   failed |-> RunFailed, start |-> snapshot]

(* ---------------------------- actions ---------------------------------- *)
\* ResumeOrganizer(root_dir, dry_run, manual_mappings).organize_resumes(),
\* up to the for loop: the first run of a behaviour, or its one re-run
StartRun ==
  /\ pc = "idle" \/ (pc = "done" /\ ~rerun)
  /\ \E d \in BOOLEAN : dry_run' = d
  /\ prev' = IF pc = "done" THEN <<Summary>> ELSE prev
  /\ root_files' = Filter(dirOrder, fs)
  /\ idx' = 1
  /\ pc' = "loop"
  /\ matched_files' = <<>>
  /\ moved_files' = <<>>
  /\ unmatched_files' = <<>>
  /\ created_folders' = <<>>
  /\ log' = <<>>
  /\ snapshot' = fs
  /\ rerun' = (rerun \/ pc = "done")
  /\ UNCHANGED <<fs, dirOrder, text, manual_mappings, faults>>

\* one iteration of the for loop (lines 426-461); mkdirOk and outcome are
\* what the operating system answers to mkdir and to the move
ProcessFile ==
  /\ pc = "loop"
  /\ idx <= Len(root_files)
  /\ \E mkdirOk \in BOOLEAN, outcome \in MoveOutcomes :
       LET file == root_files[idx]
           found == find_target_folder(fs, created_folders, dry_run, file, mkdirOk)
           result == found.result
       IN IF result.kind = "match"
          THEN LET made == create_folder_if_needed(found.fs, found.created,
                                                   dry_run, result.role, mkdirOk)
                   destination == PlanDestination(made.fs, result.role, file)
                   entry == Stat(file, result.role, result.score)
                   folderError == found.error \/ made.error
                   succeeded == ~dry_run /\ MoveSucceeds(made.fs, result.role, outcome)
                   after == IF dry_run THEN made.fs
                            ELSE ShutilMove(made.fs, file, result.role,
                                            destination, outcome)
               IN \* an answer that is not asked for is not a different step
                  /\ ~mkdirOk => folderError
                  /\ outcome # "ok" => ~dry_run /\ FolderExists(made.fs, result.role)
                  /\ faults' = faults + (IF folderError THEN 1 ELSE 0)
                                      + (IF outcome # "ok" THEN 1 ELSE 0)
                  /\ faults' <= MaxFaults
                  /\ fs' = after
                  /\ created_folders' = made.created
                  /\ matched_files' = Append(matched_files, entry)
                  /\ moved_files' = MovedAfter(moved_files, entry, succeeded)
                  /\ unmatched_files' = unmatched_files
                  /\ log' = Append(log,
                       [name |-> file, matched |-> TRUE, role |-> result.role,
                        score |-> result.score, extracted |-> found.extracted,
                        folderError |-> folderError,
                        destination |-> destination,
                        present |-> Present(made.fs, result.role),
                        atRoot |-> file \in after.root,
                        moveTried |-> ~dry_run,
                        moveError |-> ~dry_run /\ ~succeeded])
          ELSE /\ mkdirOk /\ outcome = "ok"
               /\ fs' = found.fs
               /\ created_folders' = found.created
               /\ unmatched_files' = Append(unmatched_files, file)
               /\ UNCHANGED <<matched_files, moved_files, faults>>
               /\ log' = Append(log,
                    [name |-> file, matched |-> FALSE, role |-> "",
                     score |-> 0, extracted |-> found.extracted,
                     folderError |-> FALSE, destination |-> file,
                     present |-> {}, atRoot |-> file \in found.fs.root,
                     moveTried |-> FALSE, moveError |-> FALSE])
  /\ idx' = idx + 1
  /\ UNCHANGED <<dirOrder, text, manual_mappings, dry_run, root_files, pc,
                 snapshot, prev, rerun>>

\* the for loop is exhausted: organize_resumes prints the summary and returns
FinishRun ==
  /\ pc = "loop"
  /\ idx > Len(root_files)
  /\ pc' = "done"
  /\ UNCHANGED <<fs, dirOrder, text, manual_mappings, dry_run, root_files, idx,
                 matched_files, moved_files, unmatched_files, created_folders,
                 log, snapshot, prev, rerun, faults>>

Next == StartRun \/ ProcessFile \/ FinishRun

(* ---------------------------- initial states --------------------------- *)
Candidates == {CV, CV1, PythonTXT}

PreExisting == {CV}

Range(seq) == {seq[i] : i \in 1..Len(seq)}

\* the listings of at most n distinct files of S
Listings(S, n) ==
  {q \in UNION {[1..k -> S] : k \in 0..n} :
     \A i, j \in 1..Len(q) : i # j => q[i] # q[j]}

\* the mappings of some of the files of K
Mappings(K) == UNION {[S -> ManualRoles] : S \in SUBSET K}

Idle ==
  /\ dry_run = TRUE
  /\ root_files = <<>>
  /\ idx = 1
  /\ pc = "idle"
  /\ matched_files = <<>>
  /\ moved_files = <<>>
  /\ unmatched_files = <<>>
  /\ created_folders = <<>>
  /\ log = <<>>
  /\ snapshot = fs
  /\ prev = <<>>
  /\ faults = 0

\* a root with up to MaxFiles resumes next to files that are not resumes;
\* the role folders that exist already hold a file named cv.txt
Init ==
  /\ \E q \in Listings(Candidates, MaxFiles) :
       /\ dirOrder = <<Notes>> \o q \o <<HiddenCV, Requirements>>
       /\ text \in [Range(q) -> OrgTexts]
  /\ \E d \in SUBSET ManualRoles :
       fs = FS(Range(dirOrder), d,
               [r \in FolderNames |-> IF r \in d THEN PreExisting ELSE {}])
  /\ manual_mappings \in Mappings({CV})
  /\ rerun = FALSE
  /\ Idle

\* one run on a root with one resume, of any text of up to MaxWords tokens
InitClassify ==
  /\ \E n \in {CV, PythonTXT} :
       /\ dirOrder = <<n>>
       /\ text \in [{n} -> TextsOver(Vocab, MaxWords)]
       /\ manual_mappings \in Mappings({n})
  /\ fs = FS(Range(dirOrder), {}, [r \in FolderNames |-> {}])
  /\ rerun = TRUE
  /\ Idle

Spec == Init /\ [][Next]_vars

SpecClassify == InitClassify /\ [][Next]_vars

TypeOK ==
  /\ pc \in {"idle", "loop", "done"}
  /\ fs.dirs \subseteq FolderNames
  /\ idx \in 1..(Len(root_files) + 1)
  /\ Len(log) = idx - 1

(* ---------------------------- claims ----------------------------------- *)
Entries == 1..Len(log)

Mapped(name) == name \in DOMAIN manual_mappings

\* the moves the current run performed
Performed == {i \in Entries : log[i].moveTried /\ ~log[i].moveError}

\* C1: in simulate mode (dry_run = TRUE) the filesystem under the root stays
\* what it was when the run started, at every step up to the end of the run:
\* no folder is created and no file is moved, renamed or removed.
C1_DryRunKeepsFilesystem ==
  (pc # "idle" /\ dry_run) => fs = snapshot

\* a finished dry run that matched a manually mapped file and a file by its
\* content, and recorded a folder to create
C1_Witness ==
  /\ pc = "done" /\ dry_run
  /\ created_folders # <<>>
  /\ \E i, j \in Entries :
       /\ log[i].matched /\ ~log[i].extracted
       /\ log[j].matched /\ log[j].extracted

\* C2: a file whose exact name is a key of the manual mapping is matched to
\* the mapped role with score 999, its target folder is the mapped role's,
\* extract_text_from_file is not called for it, and it is not in
\* unmatched_files.
C2_ManualMappingWins ==
  \A i \in Entries :
    Mapped(log[i].name) =>
      /\ log[i].matched
      /\ log[i].role = manual_mappings[log[i].name]
      /\ log[i].score = 999
      /\ ~log[i].extracted
      /\ Stat(log[i].name, manual_mappings[log[i].name], 999) \in Range(matched_files)
      /\ log[i].name \notin Range(unmatched_files)

\* a mapped file was processed whose content alone classifies to another role
C2_Witness ==
  \E i \in Entries :
    /\ Mapped(log[i].name)
    /\ LET byContent == find_target_folder_from_content(log[i].name, text[log[i].name])
       IN byContent.kind = "match" /\ byContent.role # manual_mappings[log[i].name]

\* the greatest score of the text that is scored for the file
TopScore(name) ==
  LET scores == analyze_resume_content(ScoredText(name, text[name]))
  IN CHOOSE m \in {scores[r] : r \in Roles} : \A r \in Roles : scores[r] <= m

\* 1 if the filename fallback was used, 2 otherwise
RequiredMinimum(name) ==
  IF text[name] = <<>> \/ StrippedLen(text[name]) < 50 THEN 1 ELSE 2

C4_ContentNeedsTwoHits ==
  \A i \in Entries :
    ( /\ ~Mapped(log[i].name)
      /\ StrippedLen(text[log[i].name]) > 0
      /\ TopScore(log[i].name) = 1 ) => ~log[i].matched

\* the smallest n >= 1 for which "{stem} ({n}){suffix}" is not in present
SmallestFree(name, present) ==
  CHOOSE n \in 1..(Cardinality(present) + 1) :
    /\ DupName(name, n) \notin present
    /\ \A m \in 1..(n - 1) : DupName(name, m) \in present

DistinctDestinations ==
  \A i, j \in Performed :
    i # j => <<log[i].role, log[i].destination>> # <<log[j].role, log[j].destination>>

\* C5 as claimed: in an execute run the destinations of the performed moves
\* are pairwise distinct, none was occupied when its move was performed, and
\* a file named like a file already present in the target folder lands at
\* "{stem} (1){suffix}".
C5_DuplicateLandsAtOne ==
  ~dry_run =>
    /\ DistinctDestinations
    /\ \A i \in Performed :
         /\ log[i].destination \notin log[i].present
         /\ log[i].name \in log[i].present =>
              log[i].destination = DupName(log[i].name, 1)

\* C5 as amended: in an execute run the destinations of the performed moves
\* are pairwise distinct, none was occupied when its move was performed, and
\* a file named like a file already present in the target folder lands at
\* "{stem} ({n}){suffix}" for the smallest n >= 1 that is free there, which
\* is "{stem} (1){suffix}" when that path is free.
C5_DuplicateLandsAtFirstFree ==
  ~dry_run =>
    /\ DistinctDestinations
    /\ \A i \in Performed :
         /\ log[i].destination \notin log[i].present
         /\ log[i].name \in log[i].present =>
              /\ log[i].destination =
                   DupName(log[i].name, SmallestFree(log[i].name, log[i].present))
              /\ DupName(log[i].name, 1) \notin log[i].present =>
                   log[i].destination = DupName(log[i].name, 1)

\* an execute run performed two moves into one folder, the second of a file
\* whose name and whose "(1)" name were both taken there
C5_Witness ==
  /\ ~dry_run
  /\ \E i, j \in Performed :
       /\ i < j
       /\ log[i].role = log[j].role
       /\ log[j].name \in log[j].present
       /\ DupName(log[j].name, 1) \in log[j].present
       /\ log[j].destination = DupName(log[j].name, 2)

\* C6: in an execute run, a matched file whose target folder could not be
\* created stays at its place in the root, is not in matched_files but in
\* unmatched_files, and the run goes on to the end of the enumeration.
C6_FolderFailureLeavesUnmatched ==
  \A i \in Entries :
    (~dry_run /\ log[i].folderError) =>
      /\ log[i].atRoot
      /\ \A k \in 1..Len(matched_files) : matched_files[k].name # log[i].name
      /\ log[i].name \in Range(unmatched_files)
      /\ pc = "done" => Len(log) = Len(root_files)

\* C7: in an execute run, a file whose move failed is still at its place in
\* the root and is not in moved_files, and the run ends only when every file
\* of the enumeration was processed.
C7_MoveFailureKeepsFile ==
  /\ \A i \in Entries :
       log[i].moveError =>
         /\ log[i].atRoot
         /\ log[i].name \in fs.root
         /\ \A k \in 1..Len(moved_files) : moved_files[k].name # log[i].name
  /\ pc = "done" => Len(log) = Len(root_files)
  /\ pc = "loop" => Len(log) = idx - 1

\* a finished execute run in which shutil.move failed into an existing
\* folder and a later file was moved
C7_Witness ==
  /\ pc = "done" /\ ~dry_run
  /\ \E i, j \in Entries :
       /\ i < j
       /\ log[i].moveError /\ ~log[i].folderError
       /\ j \in Performed

\* C8: when nothing fails, a simulate run and an execute run from the same
\* filesystem end with the same matched_files, moved_files, unmatched_files
\* and created_folders.
C8_SameRunStats ==
  ( /\ pc = "done" /\ ~dry_run /\ ~RunFailed
    /\ prev # <<>> ) =>
      ( (prev[1].dry_run /\ prev[1].start = snapshot) =>
          /\ prev[1].matched = matched_files
          /\ prev[1].moved = moved_files
          /\ prev[1].unmatched = unmatched_files
          /\ prev[1].created = created_folders )

\* C9: an execute run that follows an execute run without failures, with the
\* same mapping, moves no file and creates no folder: the filesystem stays
\* what the first run left.
C9_RerunIsIdempotent ==
  ( /\ pc # "idle" /\ ~dry_run
    /\ prev # <<>> ) =>
      ( (~prev[1].dry_run /\ ~prev[1].failed) =>
          /\ moved_files = <<>>
          /\ created_folders = <<>>
          /\ fs = snapshot )

\* the second of two execute runs has ended: the first moved a file, and the
\* second found a file in the root and left it there
C9_Witness ==
  /\ pc = "done" /\ ~dry_run
  /\ prev # <<>>
  /\ ~prev[1].dry_run /\ ~prev[1].failed
  /\ prev[1].moved # <<>>
  /\ unmatched_files # <<>>

\* C10: the destination planned for a matched file is targetFolder/name when
\* that is free and otherwise "{stem} ({n}){suffix}" for the smallest free
\* n >= 1, on the folder as it is when the file is processed: after the
\* folder creations and the moves made earlier in the run.
C10_DestinationIsFirstFree ==
  \A i \in Entries :
    log[i].matched =>
      /\ log[i].destination =
           IF log[i].name \notin log[i].present THEN log[i].name
           ELSE DupName(log[i].name, SmallestFree(log[i].name, log[i].present))
      /\ i = Len(log) =>
           /\ log[i].present \subseteq Present(fs, log[i].role)
           /\ Present(fs, log[i].role) \subseteq log[i].present \cup {log[i].destination}
           /\ i \in Performed => log[i].destination \in Present(fs, log[i].role)

\* a file was matched to a folder in which an earlier move of the same run
\* had taken the name it would have got at the start of the run
C10_Witness ==
  \E i \in Entries :
    /\ log[i].matched
    /\ log[i].name \in log[i].present
    /\ log[i].destination # NextFree(snapshot, log[i].role, log[i].name, log[i].name, 1)
    /\ log[i].destination \notin log[i].present

\* the place of a role in the order of _build_role_keywords
Position(role) == CHOOSE k \in 1..Len(RoleOrder) : RoleOrder[k] = role

\* the score map of the text that is scored for the file
ScoreMap(name) == analyze_resume_content(ScoredText(name, text[name]))

\* C11: the role a file is classified to by its content has the greatest
\* score of the score map, and among the roles that tie for it, it is the
\* first in the taxonomy's definition order.
C11_FirstOfTheBest ==
  \A i \in Entries :
    (log[i].matched /\ ~Mapped(log[i].name)) =>
      /\ log[i].role \in Roles
      /\ log[i].score = ScoreMap(log[i].name)[log[i].role]
      /\ \A r \in Roles :
           /\ ScoreMap(log[i].name)[r] <= log[i].score
           /\ ScoreMap(log[i].name)[r] = log[i].score =>
                Position(log[i].role) <= Position(r)

\* a file was classified while the winner tied with a later role and an
\* earlier role scored less
C11_Witness ==
  \E i \in Entries :
    /\ log[i].matched /\ ~Mapped(log[i].name)
    /\ \E r \in Roles :
         /\ Position(r) > Position(log[i].role)
         /\ ScoreMap(log[i].name)[r] = log[i].score
    /\ \E r \in Roles :
         /\ Position(r) < Position(log[i].role)
         /\ ScoreMap(log[i].name)[r] < log[i].score

RECURSIVE IsSubsequence(_, _)
IsSubsequence(a, b) ==
  IF a = <<>> THEN TRUE
  ELSE IF b = <<>> THEN FALSE
  ELSE IF Head(a) = Head(b) THEN IsSubsequence(Tail(a), Tail(b))
  ELSE IsSubsequence(a, Tail(b))

\* how often the file is recorded in matched_files and in unmatched_files
TimesMatched(name) ==
  Cardinality({k \in 1..Len(matched_files) : matched_files[k].name = name})

TimesUnmatched(name) ==
  Cardinality({k \in 1..Len(unmatched_files) : unmatched_files[k] = name})

\* the paths <<folder, name>> to which the run moved the file
MovedTo(name) ==
  {<<log[i].role, log[i].destination>> : i \in {j \in Performed : log[j].name = name}}

====
